---- MODULE Spec2Model ----
(***************************************************************************)
(* Model of src/app6.py, the PE/VC deal explorer: load_data, the sidebar   *)
(* filters, the buyer multiselect, prepare_excel_summary (summary table,   *)
(* wide deal-details table, fills) and the per-buyer summary view.         *)
(*                                                                         *)
(* Every user interaction reruns the whole script, so an action changes    *)
(* one widget and then recomputes everything the script computes.  Only    *)
(* the pass of a click on the export button waits (its progress loop): it  *)
(* is two steps, and any interaction in between abandons it.               *)
(*                                                                         *)
(* Representation                                                          *)
(*   strings with structure (buyer fields, buyer names) are sequences of   *)
(*     one-character strings; target names are atoms;                      *)
(*   a Timestamp is a number of ticks, TicksPerDay ticks to the day; a     *)
(*     calendar date (date_input, strftime('%d-%m-%Y')) is a day number;   *)
(*   a deal value is a number of thousandths of a USD million;             *)
(*   NaT, NaN and a missing string are the sentinels NaT, NaNValue, NaN.   *)
(***************************************************************************)
EXTENDS Integers, Sequences, FiniteSets

\* ------------------------------------------------------------- bounds
\* Rows in the source table.
MaxDeals == 2
\* Calendar days the source table's dates fall in: 1..MaxDate.
MaxDate == 2
\* Resolution of a Timestamp within a day.
TicksPerDay == 2

\* ------------------------------------------------------------- missing
NaT == -1
NaNValue == -1
NaN == <<"NaN">>

\* ------------------------------------------------------------- strings
Whitespace == {" "}

RECURSIVE LStrip(_)
LStrip(s) ==
    IF s # <<>> /\ Head(s) \in Whitespace THEN LStrip(Tail(s)) ELSE s

RECURSIVE RStrip(_)
RStrip(s) ==
    IF s # <<>> /\ s[Len(s)] \in Whitespace
    THEN RStrip(SubSeq(s, 1, Len(s) - 1))
    ELSE s

\* str.strip()
Strip(s) == RStrip(LStrip(s))

\* str.split(sep): the segments between the separators, empty ones included.
RECURSIVE Split(_, _)
Split(s, sep) ==
    IF \E i \in 1..Len(s) : s[i] = sep
    THEN LET i == CHOOSE k \in 1..Len(s) :
                     s[k] = sep /\ \A j \in 1..(k - 1) : s[j] # sep
         IN  <<SubSeq(s, 1, i - 1)>> \o Split(SubSeq(s, i + 1, Len(s)), sep)
    ELSE <<s>>

\* Code-point order of the characters that occur.
Alphabet == <<" ", ",", "A", "B">>
CharRank(c) == CHOOSE i \in 1..Len(Alphabet) : Alphabet[i] = c

\* Python's str <
RECURSIVE StrLess(_, _)
StrLess(a, b) ==
    IF b = <<>> THEN FALSE
    ELSE IF a = <<>> THEN TRUE
    ELSE IF Head(a) = Head(b) THEN StrLess(Tail(a), Tail(b))
    ELSE CharRank(Head(a)) < CharRank(Head(b))

\* ------------------------------------------------------------- load_data
\* fillna('').astype(str)
FillNaStr(x) == IF x = NaN THEN <<>> ELSE x

\* [i.strip() for i in x.split(',') if i.strip()]
BuyerTokens(x) ==
    LET parts == Split(x, ",")
        kept  == SelectSeq(parts, LAMBDA p : Strip(p) # <<>>)
    IN  [k \in 1..Len(kept) |-> Strip(kept[k])]

\* Series.str.strip(): a missing value stays missing.
StrStrip(b) == IF b = NaN THEN NaN ELSE Strip(b)

\* Timestamp.strftime('%d-%m-%Y'): the calendar day; NaT formats to missing.
Strftime(t) == IF t = NaT THEN NaT ELSE t \div TicksPerDay

\* DataFrame.explode on one row: one row per list element, the other
\* columns and the index label repeated; an empty list gives one row whose
\* element is missing.
ExplodeRow(r, idx) ==
    LET toks == BuyerTokens(FillNaStr(r.buyers))
        row(b) == [idx |-> idx, target |-> r.target, date |-> r.date,
                   value |-> r.value, buyers |-> r.buyers,
                   buyer |-> StrStrip(b), fdate |-> Strftime(r.date)]
    IN  IF toks = <<>> THEN <<row(NaN)>>
        ELSE [k \in 1..Len(toks) |-> row(toks[k])]

RECURSIVE ExplodeFrom(_, _)
ExplodeFrom(table, i) ==
    IF i > Len(table) THEN <<>>
    ELSE ExplodeRow(table[i], i) \o ExplodeFrom(table, i + 1)

load_data(table) == ExplodeFrom(table, 1)

\* ------------------------------------------------------------- pandas helpers
\* pd.to_datetime(date): midnight of that calendar day.
to_datetime(d) == d * TicksPerDay

\* Series >= Timestamp, Series <= Timestamp, Series >= float: a comparison
\* with a missing value is False.
DateGE(a, b) == a # NaT /\ a >= b
DateLE(a, b) == a # NaT /\ a <= b
ValueGE(a, b) == a # NaNValue /\ a >= b

\* Series.min() / Series.max(): missing values are skipped.
MinOf(S) == CHOOSE m \in S : \A x \in S : m <= x
MaxOf(S) == CHOOSE m \in S : \A x \in S : m >= x

\* round(x, 2) and the format ':,.2f': the nearest hundredth, kept in
\* thousandths.  (No value drawn below lies halfway between two hundredths.)
Round2(v) == ((v + 5) \div 10) * 10

\* Series.unique(): the distinct values in order of first appearance; a
\* missing value counts as one value.
RECURSIVE Unique(_)
Unique(s) ==
    IF s = <<>> THEN <<>>
    ELSE LET init == Unique(SubSeq(s, 1, Len(s) - 1))
             x    == s[Len(s)]
         IN  IF \E i \in 1..Len(init) : init[i] = x THEN init
             ELSE Append(init, x)

\* Series.dropna()
DropNa(s) == SelectSeq(s, LAMBDA x : x # NaN)

\* sorted(strings)
RECURSIVE InsertStr(_, _)
InsertStr(sorted, x) ==
    IF sorted = <<>> THEN <<x>>
    ELSE IF StrLess(x, Head(sorted)) THEN <<x>> \o sorted
    ELSE <<Head(sorted)>> \o InsertStr(Tail(sorted), x)

RECURSIVE SortedStr(_)
SortedStr(s) ==
    IF s = <<>> THEN <<>>
    ELSE InsertStr(SortedStr(SubSeq(s, 1, Len(s) - 1)), s[Len(s)])

BuyerColumn(data) == [i \in 1..Len(data) |-> data[i].buyer]

\* data[data['Buyer List'] == buyer]: a missing value equals nothing, not
\* even a missing value.
RowsOfBuyer(data, buyer) ==
    SelectSeq(data, LAMBDA r : r.buyer # NaN /\ buyer # NaN /\ r.buyer = buyer)

\* DataFrame.sort_values('Date'): ascending, missing dates last.  Rows with
\* equal dates are kept in their original order (what the default sort does
\* on tables this small; pandas does not promise it).
DateBefore(a, b) == a # NaT /\ (b = NaT \/ a < b)

RECURSIVE InsertByDate(_, _)
InsertByDate(sorted, r) ==
    IF sorted = <<>> THEN <<r>>
    ELSE IF DateBefore(r.date, Head(sorted).date) THEN <<r>> \o sorted
    ELSE <<Head(sorted)>> \o InsertByDate(Tail(sorted), r)

\* A sort_values that leaves the rows in table order.
SortByDateUnsorted(rows) == rows

RECURSIVE SortByDate(_)
SortByDate(rows) ==
    IF rows = <<>> THEN <<>>
    ELSE InsertByDate(SortByDate(SubSeq(rows, 1, Len(rows) - 1)),
                      rows[Len(rows)])

\* The rows at the positions in keep, in their order.
RECURSIVE RowsAt(_, _, _)
RowsAt(rows, keep, i) ==
    IF i > Len(rows) THEN <<>>
    ELSE (IF i \in keep THEN <<rows[i]>> ELSE <<>>) \o RowsAt(rows, keep, i + 1)

\* DataFrame.drop_duplicates(subset=...), keys[i] the subset columns of
\* rows[i]: the first row of every key stays; missing values in a key
\* compare equal.
DropDuplicates(rows, keys) ==
    LET keep == {i \in 1..Len(rows) :
                    \A j \in 1..(i - 1) : keys[j] # keys[i]}
    IN  RowsAt(rows, keep, 1)

\* ------------------------------------------------------------- filter
\* A mask whose upper date bound is exclusive.
InFilterExclusive(r, from, to, minimum) ==
    /\ r.date # NaT /\ r.date >= from * TicksPerDay
    /\ r.date < to * TicksPerDay
    /\ r.value # NaNValue /\ r.value >= minimum

\* The boolean mask of filtered_df.
InFilter(r, from, to, minimum) ==
    /\ DateGE(r.date, to_datetime(from))
    /\ DateLE(r.date, to_datetime(to))
    /\ ValueGE(r.value, minimum)

Filter(data, from, to, minimum) ==
    SelectSeq(data, LAMBDA r : InFilter(r, from, to, minimum))

\* sorted(filtered_df['Buyer List'].dropna().unique())
UniqueBuyers(filtered) == SortedStr(Unique(DropNa(BuyerColumn(filtered))))

\* ------------------------------------------------------------- prepare_excel_summary
\* A missing 'Target Company Name'.
NaNTarget == "NaN"

DatesOf(rows) == {rows[i].date : i \in 1..Len(rows)} \ {NaT}
ValuesOf(rows) == {rows[i].value : i \in 1..Len(rows)} \ {NaNValue}

\* ('Target Company Name', 'count'): the rows whose target is not missing.
CountTargets(rows) ==
    Cardinality({i \in 1..Len(rows) : rows[i].target # NaNTarget})

\* One row of data.groupby('Buyer List').agg(...).
SummaryRow(buyer, rows) ==
    [buyer           |-> buyer,
     Number_of_Deals |-> CountTargets(rows),
     First_Deal_Date |-> Strftime(MinOf(DatesOf(rows))),
     Last_Deal_Date  |-> Strftime(MaxOf(DatesOf(rows))),
     Min_Deal_Value  |-> Round2(MinOf(ValuesOf(rows))),
     Max_Deal_Value  |-> Round2(MaxOf(ValuesOf(rows)))]

\* groupby('Buyer List'): one group per buyer that is not missing, the
\* groups in sorted key order.
GroupKeys(data) == SortedStr(Unique(DropNa(BuyerColumn(data))))

Summary(data) ==
    LET keys == GroupKeys(data)
    IN  [k \in 1..Len(keys) |-> SummaryRow(keys[k], RowsOfBuyer(data, keys[k]))]

\* subset=['Buyer List', 'Target Company Name', 'Date', 'Deal Value (USD mn)']
ExportKeys(rows) ==
    [i \in 1..Len(rows) |->
        <<rows[i].buyer, rows[i].target, rows[i].date, rows[i].value>>]

\* Cells of the wide table.
Empty == <<>>
DateCell(d) == <<"date", d>>
TextCell(t) == <<"text", t>>
NumCell(v) == <<"num", v>>

\* deal_info.extend([Formatted Date, Target Company Name, round(value, 2)])
RECURSIVE DealInfo(_)
DealInfo(rows) ==
    IF rows = <<>> THEN <<>>
    ELSE <<DateCell(Head(rows).fdate), TextCell(Head(rows).target),
           NumCell(Round2(Head(rows).value))>> \o DealInfo(Tail(rows))

\* deal_dict: one entry per value of data['Buyer List'].unique(), a missing
\* buyer included, in order of first appearance.
DealDict(data) ==
    LET buyers == Unique(BuyerColumn(data))
    IN  [k \in 1..Len(buyers) |->
            [name  |-> buyers[k],
             cells |-> DealInfo(SortByDate(RowsOfBuyer(data, buyers[k])))]]

\* A width taken from the first list instead of the longest.
FromDictWidthFirst(dict) ==
    IF dict = <<>> THEN 0 ELSE Len(dict[1].cells)

\* DataFrame.from_dict(deal_dict, orient='index'): as many columns as the
\* longest list has elements.
FromDictWidth(dict) ==
    IF dict = <<>> THEN 0
    ELSE MaxOf({Len(dict[k].cells) : k \in 1..Len(dict)})

\* The shorter lists are padded with empty cells.
Pad(cells, width) ==
    [c \in 1..width |-> IF c <= Len(cells) THEN cells[c] ELSE Empty]

FromDict(dict) ==
    LET width == FromDictWidth(dict)
    IN  [k \in 1..Len(dict) |->
            [name |-> dict[k].name, cells |-> Pad(dict[k].cells, width)]]

\* deals_df.shape[1] after reset_index: the buyer column and the deal columns.
NumColumns(deals) == 1 + (IF deals = <<>> THEN 0 ELSE Len(deals[1].cells))

\* col_headers; <<label, i>> stands for f"Date {i}", f"Deal {i}" and
\* f"Deal Value {i} (in Mn USD)".
RECURSIVE DealHeaders(_, _)
DealHeaders(i, num_deals) ==
    IF i > num_deals THEN <<>>
    ELSE <<<<"Date", i>>, <<"Deal", i>>, <<"Deal Value (in Mn USD)", i>>>>
         \o DealHeaders(i + 1, num_deals)

ColHeaders(deals) ==
    LET num_deal_columns == NumColumns(deals) - 1
        num_deals        == num_deal_columns \div 3
    IN  <<<<"Buyer Name">>>> \o DealHeaders(1, num_deals)

\* light_colors
light_colors ==
    << <<"#", "f2f2f2">>, <<"#", "e6f7ff">>, <<"#", "f9f9f9">>, <<"#", "eafbea">> >>

NoFill == <<>>

\* light_colors[(i-1// 3) % len(light_colors)][1:], where 1 // 3 binds
\* first; the list is indexed from 0.
FillColor(i) == Tail(light_colors[((i - (1 \div 3)) % Len(light_colors)) + 1])

\* range(1, deals_df.shape[1]-1, 3)
FillStarts(ncols) == {i \in 1..(ncols - 2) : (i - 1) % 3 = 0}

\* The fill of every cell of sheet column col in the rows from 2 on:
\* iter_rows(min_row=2, min_col=i + 1, max_col=i + 3) for each i.
Fills(ncols) ==
    [col \in 1..ncols |->
        IF \E i \in FillStarts(ncols) : col \in (i + 1)..(i + 3)
        THEN FillColor(CHOOSE i \in FillStarts(ncols) : col \in (i + 1)..(i + 3))
        ELSE NoFill]

NoOutput ==
    [built |-> FALSE, summary |-> <<>>, deals |-> <<>>, headers |-> <<>>,
     fills |-> <<>>]

prepare_excel_summary(data) ==
    LET summary == Summary(data)
        deduped == DropDuplicates(data, ExportKeys(data))
        deals   == FromDict(DealDict(deduped))
    IN  [built   |-> TRUE,
         summary |-> summary,
         deals   |-> deals,
         headers |-> ColHeaders(deals),
         fills   |-> Fills(NumColumns(deals))]

\* ------------------------------------------------------------- main display
\* subset=['Target Company Name', 'Date', 'Deal Value (USD mn)']
ViewKeys(rows) ==
    [i \in 1..Len(rows) |-> <<rows[i].target, rows[i].date, rows[i].value>>]

BuyerDf(filtered, buyer) ==
    LET rows == RowsOfBuyer(filtered, buyer)
    IN  SortByDate(DropDuplicates(rows, ViewKeys(rows)))

\* The per-buyer summary, or the warning when the buyer has no deals.
BuyerView(filtered, buyer) ==
    LET buyer_df == BuyerDf(filtered, buyer)
    IN  IF buyer_df = <<>>
        THEN [warning |-> TRUE]
        ELSE [warning     |-> FALSE,
              Total_Deals |-> Len(buyer_df),
              First       |-> Strftime(MinOf(DatesOf(buyer_df))),
              Most_Recent |-> Strftime(MaxOf(DatesOf(buyer_df))),
              Min_Value   |-> Round2(MinOf(ValuesOf(buyer_df))),
              Max_Value   |-> Round2(MaxOf(ValuesOf(buyer_df)))]

Views(filtered, selected) == [b \in selected |-> BuyerView(filtered, b)]

\* ------------------------------------------------------------- inputs
\* A Timestamp on calendar day d, h ticks after midnight.
Stamp(d, h) == d * TicksPerDay + h

\* The rows a source table is drawn from: buyer fields with a repeated
\* buyer, with surrounding blanks, with no buyer at all and missing; a
\* missing date, a missing value, a date with a time of day.
DealPool ==
    { [target |-> "T1", date |-> Stamp(1, 0),       value |-> 2500,
       buyers |-> <<"A", ",", " ", "A">>],
      [target |-> "T2", date |-> Stamp(MaxDate, 0), value |-> 7004,
       buyers |-> <<"B", " ", ",", "A">>],
      [target |-> "T1", date |-> Stamp(MaxDate, 0), value |-> 3254,
       buyers |-> <<"A">>],
      [target |-> "T1", date |-> Stamp(1, 0),       value |-> 2500,
       buyers |-> <<"A">>],
      [target |-> "T2", date |-> Stamp(1, 0),       value |-> 2500,
       buyers |-> <<" ", ",">>],
      [target |-> "T1", date |-> Stamp(MaxDate, 0), value |-> 7004,
       buyers |-> NaN],
      [target |-> "T2", date |-> NaT,               value |-> 3254,
       buyers |-> <<"B">>],
      [target |-> "T1", date |-> Stamp(1, 0),       value |-> NaNValue,
       buyers |-> <<"A">>],
      [target |-> "T2", date |-> Stamp(1, 1),       value |-> 3254,
       buyers |-> <<"B">>] }

\* The script gets past its sidebar only when some date and some value of
\* the table parse (min_date, min_val).
Loadable(table) ==
    /\ \E i \in 1..Len(table) : table[i].date # NaT
    /\ \E i \in 1..Len(table) : table[i].value # NaNValue

SourceTables ==
    {t \in UNION {[1..n -> DealPool] : n \in 1..MaxDeals} : Loadable(t)}

\* What the user can set the widgets to.
DateInputs == 0..(MaxDate + 1)
ValueGrid == {2500, 3254, 5000, 7004}

\* df['Date'].min().date(), df['Date'].max().date()
min_date(data) == MinOf(DatesOf(data)) \div TicksPerDay
max_date(data) == MaxOf(DatesOf(data)) \div TicksPerDay
\* float(df['Deal Value (USD mn)'].min()), float(... .max())
min_val(data) == MinOf(ValuesOf(data))
max_val(data) == MaxOf(ValuesOf(data))

\* number_input(min_value=min_val, max_value=max_val)
ValueInputs(data) == {v \in ValueGrid : min_val(data) <= v /\ v <= max_val(data)}

\* An export button that is on the page whatever the filtered set.
ExportOfferedAlways(filtered) == TRUE

\* if not filtered_df.empty: the export button is on the page.
ExportOffered(filtered) == filtered # <<>>

\* ------------------------------------------------------------- state
VARIABLES
    source,           \* the rows of "Deal Screening Data.xlsx"
    df,               \* load_data()
    from_date,        \* the sidebar widgets
    to_date,
    deal_value,
    selected_buyers,
    generate,         \* the export button was clicked for this pass
    pass,             \* "progress": the pass is in its progress loop;
                      \* "done": the pass has run to the end of the script
    filtered_df,
    unique_buyers,
    export_offered,
    excel_output,
    views

vars == <<source, df, from_date, to_date, deal_value, selected_buyers,
          generate, pass, filtered_df, unique_buyers, export_offered,
          excel_output, views>>

\* One whole pass of the script over the widget values f, t, v, sel, the
\* export button not clicked: no export, no download button.  A pass that
\* was in its progress loop is abandoned for this one.  The multiselect is
\* created anew, with nothing selected, when its options change.
Rerun(f, t, v, sel) ==
    LET filtered == Filter(df, f, t, v)
        options  == UniqueBuyers(filtered)
        selected == IF options = unique_buyers THEN sel ELSE {}
    IN  /\ from_date' = f
        /\ to_date' = t
        /\ deal_value' = v
        /\ filtered_df' = filtered
        /\ unique_buyers' = options
        /\ selected_buyers' = selected
        /\ export_offered' = ExportOffered(filtered)
        /\ generate' = FALSE
        /\ pass' = "done"
        /\ excel_output' = NoOutput
        /\ views' = Views(filtered, selected)
        /\ UNCHANGED <<source, df>>

Init ==
    /\ source \in SourceTables
    /\ df = load_data(source)
    /\ from_date = min_date(df)
    /\ to_date = max_date(df)
    /\ deal_value = min_val(df)
    /\ selected_buyers = {}
    /\ generate = FALSE
    /\ pass = "done"
    /\ filtered_df = Filter(df, from_date, to_date, deal_value)
    /\ unique_buyers = UniqueBuyers(filtered_df)
    /\ export_offered = ExportOffered(filtered_df)
    /\ excel_output = NoOutput
    /\ views = Views(filtered_df, {})

SetFromDate ==
    \E d \in DateInputs \ {from_date} :
        Rerun(d, to_date, deal_value, selected_buyers)

SetToDate ==
    \E d \in DateInputs \ {to_date} :
        Rerun(from_date, d, deal_value, selected_buyers)

SetDealValue ==
    \E v \in ValueInputs(df) \ {deal_value} :
        Rerun(from_date, to_date, v, selected_buyers)

SelectBuyers ==
    \E sel \in (SUBSET {unique_buyers[i] : i \in 1..Len(unique_buyers)})
                   \ {selected_buyers} :
        Rerun(from_date, to_date, deal_value, sel)

\* A click on the export button, which is on the page only when offered:
\* a pass over the unchanged widget values that takes the click and enters
\* the progress loop (time.sleep, progress_bar.progress).  The loop changes
\* nothing but the progress bar, which is not part of the state; until it
\* ends there is no export, and the main display of this pass has not run,
\* so the page keeps the views of the pass before.
ClickGenerate ==
    /\ export_offered
    /\ LET filtered == Filter(df, from_date, to_date, deal_value)
       IN  /\ filtered_df' = filtered
           /\ unique_buyers' = UniqueBuyers(filtered)
           /\ export_offered' = ExportOffered(filtered)
    /\ generate' = TRUE
    /\ pass' = "progress"
    /\ excel_output' = NoOutput
    /\ UNCHANGED <<source, df, from_date, to_date, deal_value,
                   selected_buyers, views>>

\* The progress loop ends undisturbed: the export is built from the filtered
\* set, the download button appears and the main display runs.
FinishExport ==
    /\ pass = "progress"
    /\ pass' = "done"
    /\ excel_output' = prepare_excel_summary(filtered_df)
    /\ views' = Views(filtered_df, selected_buyers)
    /\ UNCHANGED <<source, df, from_date, to_date, deal_value,
                   selected_buyers, generate, filtered_df, unique_buyers,
                   export_offered>>

\* A click on the download button: a pass over the unchanged widget values
\* in which the export button is not clicked, so the export is gone.
ClickDownload ==
    /\ pass = "done"
    /\ excel_output.built
    /\ Rerun(from_date, to_date, deal_value, selected_buyers)

Next ==
    \/ SetFromDate
    \/ SetToDate
    \/ SetDealValue
    \/ SelectBuyers
    \/ ClickGenerate
    \/ FinishExport
    \/ ClickDownload

Spec == Init /\ [][Next]_vars

\* ============================================================= properties
\* Read off the state, independently of the operators above.

\* The buyers with at least one row in the filtered set.
FilteredBuyers ==
    {filtered_df[i].buyer : i \in 1..Len(filtered_df)} \ {NaN}

\* The distinct deals (target, date, value) of buyer b in the filtered set.
DistinctDeals(b) ==
    {<<filtered_df[i].target, filtered_df[i].date, filtered_df[i].value>> :
        i \in {j \in 1..Len(filtered_df) : filtered_df[j].buyer = b}}

\* The largest number of distinct deals any one buyer holds.
MaxHeld ==
    IF FilteredBuyers = {} THEN 0
    ELSE CHOOSE m \in {Cardinality(DistinctDeals(b)) : b \in FilteredBuyers} :
             \A b \in FilteredBuyers : Cardinality(DistinctDeals(b)) <= m

SummaryRowsOf(b) ==
    {k \in 1..Len(excel_output.summary) : excel_output.summary[k].buyer = b}

DetailRowsOf(b) ==
    {k \in 1..Len(excel_output.deals) : excel_output.deals[k].name = b}

IsEmpty(cell) == Len(cell) = 0

\* The populated cells of a details row.
Populated(row) == {c \in 1..Len(row.cells) : ~IsEmpty(row.cells[c])}

\* The triple in slot i (1-based) of a details row.
SlotDate(row, i) == row.cells[3 * i - 2][2]
SlotTarget(row, i) == row.cells[3 * i - 1][2]
SlotValue(row, i) == row.cells[3 * i][2]
SlotsOf(row) == {i \in 1..(Len(row.cells) \div 3) : ~IsEmpty(row.cells[3 * i - 2])}

\* C1: two identical expanded rows (same buyer, target, date, value) collapse
\* to one entry in both outputs: every buyer's Number_of_Deals is its number
\* of distinct deals, and its details row holds one triple per distinct deal.
C1_DuplicatesCollapseInBothOutputs ==
    excel_output.built =>
        \A b \in FilteredBuyers :
            /\ \A k \in SummaryRowsOf(b) :
                 excel_output.summary[k].Number_of_Deals
                     = Cardinality(DistinctDeals(b))
            /\ \A k \in DetailRowsOf(b) :
                 Cardinality(SlotsOf(excel_output.deals[k]))
                     = Cardinality(DistinctDeals(b))

\* The distinct buyer tokens of source row i.
DistinctTokens(i) ==
    LET toks == BuyerTokens(FillNaStr(source[i].buyers))
    IN  {toks[k] : k \in 1..Len(toks)}

ExpandedRowsOf(i) == {j \in 1..Len(df) : df[j].idx = i}

\* C2: a deal whose buyer field holds k distinct non-empty tokens has exactly
\* k expanded rows, which differ only in the buyer field.
C2_OneRowPerDistinctBuyer ==
    \A i \in 1..Len(source) :
        /\ Cardinality(ExpandedRowsOf(i)) = Cardinality(DistinctTokens(i))
        /\ \A j \in ExpandedRowsOf(i) :
             /\ df[j].target = source[i].target
             /\ df[j].date = source[i].date
             /\ df[j].value = source[i].value
             /\ df[j].buyers = source[i].buyers

\* C3: a deal whose buyer field yields no token has no row in the expanded
\* view, so none in the filtered set, and the export holds no row for it.
C3_NoBuyerNoRow ==
    \A i \in 1..Len(source) :
        DistinctTokens(i) = {} =>
            /\ ExpandedRowsOf(i) = {}
            /\ \A j \in 1..Len(filtered_df) : filtered_df[j].idx # i
            /\ excel_output.built => DetailRowsOf(NaN) = {}

\* The inclusion predicate of the filter, on Timestamps.
Included(r) ==
    /\ r.date # NaT
    /\ from_date * TicksPerDay <= r.date
    /\ r.date <= to_date * TicksPerDay
    /\ r.value # NaNValue
    /\ r.value >= deal_value

\* C4: the filtered set is exactly the expanded rows, in order, whose date is
\* present and within [from_date, to_date] and whose value is present and at
\* least the minimum; rows with a missing date or value are left out.
C4_FilterPredicate ==
    /\ filtered_df = RowsAt(df, {i \in 1..Len(df) : Included(df[i])}, 1)
    /\ \A i \in 1..Len(df) :
         (df[i].date = NaT \/ df[i].value = NaNValue) =>
             \A j \in 1..Len(filtered_df) : filtered_df[j] # df[i]

\* C4 witness: a deal dated exactly to_date is in the filtered set while
\* another dated the day after to_date is not.
C4_Witness ==
    /\ \E j \in 1..Len(filtered_df) :
         filtered_df[j].date = to_date * TicksPerDay
    /\ \E i \in 1..Len(df) :
         /\ df[i].date # NaT
         /\ df[i].date \div TicksPerDay = to_date + 1
         /\ df[i].value # NaNValue /\ df[i].value >= deal_value
         /\ \A j \in 1..Len(filtered_df) : filtered_df[j].idx # df[i].idx

\* C5: the report builder runs only in a pass whose filtered set is not
\* empty; with an empty filtered set no export button and no output.
C5_NoExportOfEmptySet ==
    /\ (generate \/ excel_output.built) => filtered_df # <<>>
    /\ filtered_df = <<>> => (~export_offered /\ excel_output = NoOutput)

\* C5 witness: the builder has run in this pass.
C5_Witness == generate /\ excel_output.built /\ filtered_df # <<>>

\* C6: for every selected buyer with deals, the figures of the per-buyer view
\* equal the buyer's row of the exported summary.
C6_ViewEqualsSummary ==
    excel_output.built =>
        \A b \in selected_buyers :
            ~views[b].warning =>
                \E k \in SummaryRowsOf(b) :
                    LET row == excel_output.summary[k]
                    IN  /\ row.Number_of_Deals = views[b].Total_Deals
                        /\ row.First_Deal_Date = views[b].First
                        /\ row.Last_Deal_Date = views[b].Most_Recent
                        /\ row.Min_Deal_Value = views[b].Min_Value
                        /\ row.Max_Deal_Value = views[b].Max_Value

\* The details rows of buyers (a row without a buyer name is none).
BuyerDetailRows ==
    {k \in 1..Len(excel_output.deals) : excel_output.deals[k].name # NaN}

\* C7: the details table has 1 + 3*M columns, M the largest number of
\* distinct deals of one buyer; a buyer with n deals has its first 3*n deal
\* cells populated and the 3*(M - n) cells after them empty; the headers are
\* 'Buyer Name', then Date i, Deal i, Deal Value i for i = 1..M.
C7_DetailsWidth ==
    excel_output.built =>
        /\ NumColumns(excel_output.deals) = 1 + 3 * MaxHeld
        /\ Len(excel_output.headers) = 1 + 3 * MaxHeld
        /\ excel_output.headers[1] = <<"Buyer Name">>
        /\ \A i \in 1..MaxHeld :
             /\ excel_output.headers[3 * i - 1] = <<"Date", i>>
             /\ excel_output.headers[3 * i] = <<"Deal", i>>
             /\ excel_output.headers[3 * i + 1] = <<"Deal Value (in Mn USD)", i>>
        /\ \A k \in BuyerDetailRows :
             LET row == excel_output.deals[k]
                 n   == Cardinality(DistinctDeals(row.name))
             IN  /\ Len(row.cells) = 3 * MaxHeld
                 /\ Populated(row) = 1..(3 * n)
                 /\ Cardinality((1..Len(row.cells)) \ Populated(row))
                        = 3 * (MaxHeld - n)

\* C7 witness: an export in which one buyer holds fewer deals than another,
\* so that its row ends in empty cells.
C7_Witness ==
    /\ excel_output.built
    /\ MaxHeld >= 2
    /\ \E k \in BuyerDetailRows :
         /\ Populated(excel_output.deals[k]) = 1..3
         /\ Len(excel_output.deals[k].cells) = 3 * MaxHeld

\* C8: in every details row the triples are in non-decreasing date order,
\* and every triple is the date, target and value of one deal of the row's
\* buyer in the filtered set.
C8_TriplesSortedByDate ==
    excel_output.built =>
        \A k \in 1..Len(excel_output.deals) :
            LET row == excel_output.deals[k]
            IN  /\ \A i \in SlotsOf(row) :
                     (i + 1) \in SlotsOf(row) =>
                         SlotDate(row, i) <= SlotDate(row, i + 1)
                /\ \A i \in SlotsOf(row) :
                     \E j \in 1..Len(filtered_df) :
                         /\ filtered_df[j].buyer = row.name
                         /\ filtered_df[j].date \div TicksPerDay = SlotDate(row, i)
                         /\ filtered_df[j].target = SlotTarget(row, i)
                         /\ ((filtered_df[j].value + 5) \div 10) * 10
                                = SlotValue(row, i)

\* C8 witness: a details row with two deals of different dates, the later
\* of which comes first in the source table.
C8_Witness ==
    /\ excel_output.built
    /\ \E k \in 1..Len(excel_output.deals) :
         LET row == excel_output.deals[k]
         IN  /\ {1, 2} \subseteq SlotsOf(row)
             /\ SlotDate(row, 1) < SlotDate(row, 2)
             /\ \E i, j \in 1..Len(filtered_df) :
                  /\ i < j
                  /\ filtered_df[i].buyer = row.name
                  /\ filtered_df[j].buyer = row.name
                  /\ filtered_df[i].date > filtered_df[j].date

\* The palette in its order.
Palette == <<"f2f2f2", "e6f7ff", "f9f9f9", "eafbea">>

\* C9: the three columns of triple slot t (counted from 0) are filled with
\* palette[t mod 4], every deal column is filled, and the 'Buyer Name'
\* column is not.
C9_FillCyclesByTriple ==
    excel_output.built =>
        /\ excel_output.fills[1] = NoFill
        /\ \A t \in 0..(MaxHeld - 1) :
             \A c \in (3 * t + 2)..(3 * t + 4) :
                 excel_output.fills[c] = <<Palette[(t % 4) + 1]>>

\* C10: the summary and the details table hold the same buyers, each once,
\* namely the options of the buyer multiselect, and no row without a name
\* (stated for the exports that hold at least one named buyer).
C10_SameBuyersInBothTables ==
    (excel_output.built /\ FilteredBuyers # {}) =>
        LET options == {unique_buyers[i] : i \in 1..Len(unique_buyers)}
        IN  /\ \A b \in options :
                 /\ Cardinality(SummaryRowsOf(b)) = 1
                 /\ Cardinality(DetailRowsOf(b)) = 1
            /\ \A k \in 1..Len(excel_output.summary) :
                 excel_output.summary[k].buyer \in options
            /\ \A k \in 1..Len(excel_output.deals) :
                 excel_output.deals[k].name \in options

====
